---- MODULE Spec2Model ----
(***************************************************************************)
(* RSI stock tracker (Benggoy/trading-analysis).                           *)
(*                                                                         *)
(* Nine specifications over one set of variables:                          *)
(*   SpecRSI    the indicator engine: the calculate_rsi implementations,   *)
(*              detect_signals and the row status of update_stock_data,    *)
(*              applied to bounded price series;                           *)
(*   SpecCache  StockData.get_stock_data with a clock, a fallible fetch    *)
(*              and concurrent callers;                                    *)
(*   Spec       the tracker application: watchlist, persisted file, table  *)
(*              rows, the foreground event handlers (with the event pump   *)
(*              add_stock runs), the scheduled update loop, manual         *)
(*              refresh and on_closing.                                    *)
(*   SpecLoad   start-up of a tracker on an arbitrary watchlist file:      *)
(*              load_watchlist and populate_initial_data;                  *)
(*   SpecDiv    detect_divergence applied to bounded price and RSI series; *)
(*   SpecWorked calculate_rsi on the worked example of 15 prices;          *)
(*   SpecQuote  get_comprehensive_stock_info of the enhanced and the       *)
(*              ultimate tracker next to the price-history cache;          *)
(*   SpecUpdate one symbol update together with the caches it reads;       *)
(*   SpecLive   Spec with a fairly scheduled update loop.                  *)
(*                                                                         *)
(* Floating point values are modelled as exact rationals extended with     *)
(* NaN and the infinities; rounding is not modelled.                       *)
(***************************************************************************)
EXTENDS Integers, Sequences, FiniteSets, TLC

VARIABLES
    prices,      \* SpecRSI: the closing prices handed to calculate_rsi
    period,      \* SpecRSI: the RSI period
    out,         \* SpecRSI: what the last calculate_rsi call returned
    cls,         \* SpecRSI: the last classification of an RSI value
    rsi_series,  \* SpecDiv: the RSI series handed to detect_divergence
    window,      \* SpecDiv: the lookback window
    divergence,  \* SpecDiv: the 'Divergence' column detect_divergence returned
    now,         \* SpecCache: time.time()
    cache,       \* SpecCache: StockData.cache, cache_key -> (data, timestamp)
    fetches,     \* SpecCache: number of ticker.history calls made so far
    calls,       \* SpecCache: each calling thread's get_stock_data invocation
    info_cache,  \* SpecQuote: EnhancedStockData.info_cache, symbol -> (info, timestamp)
    quoted,      \* SpecQuote: per symbol, the number of ticker.info fetches made
                 \* and the time of the last one that returned
    app,         \* Spec: which tracker runs ("basic", "enhanced", "ultimate")
    watchlist,   \* Spec: self.watchlist
    file,        \* Spec: the persisted watchlist file
    rows,        \* Spec: the item ids of self.tree
    fg,          \* Spec: add_stock calls suspended in self.root.update()
    signal,      \* Spec: what the step just taken told the user ("" if nothing)
    posted,      \* Spec: callbacks the step just taken posted with root.after
    fetched,     \* Spec: get_stock_data calls the step just taken made, by thread
    loop,        \* Spec: the update_loop thread
    threads,     \* Spec: the live threads started by the foreground handlers
    is_updating, \* Spec: self.is_updating
    win          \* Spec: "open", "joining" (on_closing in join), "destroyed";
                 \* SpecLoad: "init" (before run), "open", "failed"

rsiVars == <<prices, period, out, cls, rsi_series, window, divergence>>
cacheVars == <<now, cache, fetches, calls, info_cache, quoted>>
storeVars == <<watchlist, file, rows>>
threadVars == <<loop, threads>>
appVars == <<app, watchlist, file, rows, fg, signal, posted, fetched, loop, threads,
             is_updating, win>>

vars == <<prices, period, out, cls, rsi_series, window, divergence, now, cache, fetches, calls, info_cache, quoted,
          app, watchlist, file, rows, fg, signal, posted, fetched, loop, threads,
          is_updating, win>>

-----------------------------------------------------------------------------
(* Bounds of the model.                                                    *)

MaxLen == 4         \* longest price series
MaxPrice == 3       \* prices are drawn from 1..MaxPrice
MaxPeriod == 3      \* RSI periods are drawn from 1..MaxPeriod
MaxTime == 120      \* the clock stops here
TimeStep == 30      \* granularity of the clock
MaxFetch == 3       \* at most this many fetches from the data source
MaxWatch == 2       \* longest watchlist
MaxDepth == 2       \* deepest nesting of add_stock calls in the event pump
MaxThreads == 1     \* threads started by the foreground handlers alive at a time

-----------------------------------------------------------------------------
(* float64 as the code uses it: a rational n/d (d > 0), NaN, or an         *)
(* infinity (k = "inf", n = 1 or -1).                                      *)

RECURSIVE Gcd(_, _)
Gcd(a, b) == IF b = 0 THEN a ELSE Gcd(b, a % b)

Abs(i) == IF i < 0 THEN -i ELSE i

\* The rational n/d in lowest terms (d > 0).
Num(n, d) ==
    LET g == Gcd(Abs(n), d)
    IN [k |-> "num", n |-> n \div g, d |-> d \div g]
NaN == [k |-> "nan", n |-> 0, d |-> 1]
PInf == [k |-> "inf", n |-> 1, d |-> 1]
NInf == [k |-> "inf", n |-> -1, d |-> 1]

IsNaN(x) == x.k = "nan"

Sign(i) == IF i > 0 THEN 1 ELSE IF i < 0 THEN -1 ELSE 0

FNeg(x) ==
    CASE x.k = "nan" -> NaN
      [] x.k = "inf" -> [x EXCEPT !.n = -x.n]
      [] OTHER -> Num(-x.n, x.d)

FAdd(x, y) ==
    CASE x.k = "nan" \/ y.k = "nan" -> NaN
      [] x.k = "inf" /\ y.k = "inf" -> IF x.n = y.n THEN x ELSE NaN
      [] x.k = "inf" -> x
      [] y.k = "inf" -> y
      [] OTHER -> Num(x.n * y.d + y.n * x.d, x.d * y.d)

FSub(x, y) == FAdd(x, FNeg(y))

FMul(x, y) ==
    CASE x.k = "nan" \/ y.k = "nan" -> NaN
      [] x.k = "inf" \/ y.k = "inf" ->
            IF Sign(x.n) * Sign(y.n) = 0 THEN NaN
            ELSE IF Sign(x.n) * Sign(y.n) > 0 THEN PInf ELSE NInf
      [] OTHER -> Num(x.n * y.n, x.d * y.d)

\* Mutant of FDiv: a division by zero has no value (NaN) instead of giving
\* an infinity.
FDiv_undefined(x, y) ==
    CASE x.k = "nan" \/ y.k = "nan" -> NaN
      [] x.k = "inf" /\ y.k = "inf" -> NaN
      [] x.k = "inf" -> IF Sign(y.n) < 0 THEN FNeg(x) ELSE x
      [] y.k = "inf" -> Num(0, 1)
      [] y.n = 0 -> NaN
      [] y.n > 0 -> Num(x.n * y.d, x.d * y.n)
      [] OTHER -> Num(-(x.n * y.d), x.d * (-y.n))

\* IEEE division: x/0 is an infinity (NaN for 0/0), never an exception.
FDiv(x, y) ==
    CASE x.k = "nan" \/ y.k = "nan" -> NaN
      [] x.k = "inf" /\ y.k = "inf" -> NaN
      [] x.k = "inf" -> IF Sign(y.n) < 0 THEN FNeg(x) ELSE x
      [] y.k = "inf" -> Num(0, 1)
      [] y.n = 0 -> IF x.n = 0 THEN NaN ELSE IF x.n > 0 THEN PInf ELSE NInf
      [] y.n > 0 -> Num(x.n * y.d, x.d * y.n)
      [] OTHER -> Num(-(x.n * y.d), x.d * (-y.n))

\* Comparisons are false whenever an operand is NaN.
FLt(x, y) ==
    CASE x.k = "nan" \/ y.k = "nan" -> FALSE
      [] x.k = "inf" /\ y.k = "inf" -> x.n < y.n
      [] x.k = "inf" -> x.n < 0
      [] y.k = "inf" -> y.n > 0
      [] OTHER -> x.n * y.d < y.n * x.d

FGt(x, y) == FLt(y, x)

FEq(x, y) ==
    CASE x.k = "nan" \/ y.k = "nan" -> FALSE
      [] x.k = "inf" \/ y.k = "inf" -> x.k = y.k /\ x.n = y.n
      [] OTHER -> x.n * y.d = y.n * x.d

FLe(x, y) == FLt(x, y) \/ FEq(x, y)

-----------------------------------------------------------------------------
(* pandas Series operations used by the calculate_rsi implementations.     *)

\* Series.diff(): the first element has no predecessor and is NaN.
Diff(p) == [i \in 1..Len(p) |-> IF i = 1 THEN NaN ELSE Num(p[i] - p[i - 1], 1)]

\* deltas.where(deltas > 0, 0): keep where the condition is True, else 0.
Gains(deltas) ==
    [i \in 1..Len(deltas) |->
        IF FGt(deltas[i], Num(0, 1)) THEN deltas[i] ELSE Num(0, 1)]

\* Mutant of Losses: the losses keep their negative sign.
Losses_signed(deltas) ==
    [i \in 1..Len(deltas) |->
        IF FLt(deltas[i], Num(0, 1)) THEN deltas[i] ELSE Num(0, 1)]

\* -deltas.where(deltas < 0, 0)
Losses(deltas) ==
    [i \in 1..Len(deltas) |->
        FNeg(IF FLt(deltas[i], Num(0, 1)) THEN deltas[i] ELSE Num(0, 1))]

RECURSIVE WindowSum(_, _, _)
WindowSum(xs, lo, hi) ==
    IF lo > hi THEN Num(0, 1) ELSE FAdd(WindowSum(xs, lo, hi - 1), xs[hi])

\* xs.rolling(window=w).mean(): NaN until w observations are available.
RollingMean(xs, w) ==
    [i \in 1..Len(xs) |->
        IF i < w THEN NaN ELSE FDiv(WindowSum(xs, i - w + 1, i), Num(w, 1))]

\* xs.ewm(span=span, adjust=False).mean():
\* y[1] = x[1], y[i] = (1 - a) * y[i-1] + a * x[i] with a = 2 / (span + 1).
RECURSIVE EwmAt(_, _, _)
EwmAt(xs, span, i) ==
    IF i = 1 THEN xs[1]
    ELSE FAdd(FMul(Num(span - 1, span + 1), EwmAt(xs, span, i - 1)),
              FMul(Num(2, span + 1), xs[i]))

EwmMean(xs, span) == [i \in 1..Len(xs) |-> EwmAt(xs, span, i)]

\* rs = avg_gain / avg_loss ; rsi = 100 - (100 / (1 + rs)), element by element.
RsiFromAverages(avgGain, avgLoss) ==
    [i \in 1..Len(avgGain) |->
        FSub(Num(100, 1),
             FDiv(Num(100, 1), FAdd(Num(1, 1), FDiv(avgGain[i], avgLoss[i]))))]

\* Series.fillna(v)
FillNa(xs, v) == [i \in 1..Len(xs) |-> IF IsNaN(xs[i]) THEN v ELSE xs[i]]

Neutral == Num(50, 1)

-----------------------------------------------------------------------------
(* The calculate_rsi implementations.                                      *)

\* rsi_tracker_app.py / enhanced_rsi_tracker.py: SMA, latest value only.
calculate_rsi_latest(p, n) ==
    IF Len(p) < n + 1 THEN Neutral
    ELSE LET deltas == Diff(p)
             rsi == RsiFromAverages(RollingMean(Gains(deltas), n),
                                    RollingMean(Losses(deltas), n))
         IN IF ~IsNaN(rsi[Len(p)]) THEN rsi[Len(p)] ELSE Neutral

\* ultimate_rsi_tracker.py: SMA, the whole series, NaN filled with 50.
calculate_rsi_series(p, n) ==
    IF Len(p) < n + 1 THEN [i \in 1..Len(p) |-> Neutral]
    ELSE LET deltas == Diff(p)
         IN FillNa(RsiFromAverages(RollingMean(Gains(deltas), n),
                                   RollingMean(Losses(deltas), n)), Neutral)

\* indicators/rsi_calculator.py: EMA, the whole series, no length guard and
\* no NaN fill.
calculate_rsi_ema(p, n) ==
    LET deltas == Diff(p)
    IN RsiFromAverages(EwmMean(Gains(deltas), n), EwmMean(Losses(deltas), n))

-----------------------------------------------------------------------------
(* Signal classification.                                                  *)

overbought_level == 70
oversold_level == 30

\* Mutant of detect_signals: the thresholds themselves fire the signals.
detect_signals_inclusive(rsi) ==
    [i \in 1..Len(rsi) |->
        IF FLe(Num(70, 1), rsi[i]) THEN "SELL"
        ELSE IF FLe(rsi[i], Num(30, 1)) THEN "BUY" ELSE "HOLD"]

\* RSICalculator.detect_signals: 'HOLD', then BUY where rsi < oversold, then
\* SELL where rsi > overbought (the later assignment wins).
detect_signals(rsi) ==
    [i \in 1..Len(rsi) |->
        LET s0 == "HOLD"
            s1 == IF FLt(rsi[i], Num(oversold_level, 1)) THEN "BUY" ELSE s0
        IN IF FGt(rsi[i], Num(overbought_level, 1)) THEN "SELL" ELSE s1]

\* update_stock_data: if rsi > 70 ... elif rsi < 30 ... else ...
rsi_status(rsi) ==
    IF FGt(rsi, Num(70, 1)) THEN "Overbought"
    ELSE IF FLt(rsi, Num(30, 1)) THEN "Oversold"
    ELSE "Neutral"

\* RSI values handed to the classification besides computed ones.
NoOut == [impl |-> "none", vals |-> <<>>]
NoCls == [set |-> FALSE, r |-> NaN, signal |-> "", status |-> ""]
NoDiv == [set |-> FALSE, vals |-> <<>>]

RValues ==
    {NaN, Num(0, 1), Num(299, 10), Num(30, 1), Num(301, 10), Num(50, 1),
     Num(699, 10), Num(70, 1), Num(701, 10), Num(100, 1)}

\* No watchlist file on disk.
NoFile == [exists |-> FALSE, text |-> <<>>]

\* A thread running refresh_all_stocks, its list iterator at index idx.
RefreshThread(idx) == [kind |-> "refresh", idx |-> idx, todo |-> <<>>]

\* A thread updating the symbols todo: kind "add" runs update_stock_data,
\* kind "new" runs refresh_new_stocks.
UpdateThread(kind, todo) == [kind |-> kind, idx |-> 0, todo |-> todo]

\* The update_loop thread as start_updates starts it.
LoopStart == [pc |-> "while", snapshot |-> <<>>, idx |-> 0, failed |-> FALSE]

\* The application variables while another specification runs.
AppIdle ==
    /\ app = "basic" /\ watchlist = <<>> /\ file = NoFile /\ rows = {}
    /\ fg = <<>> /\ signal = "" /\ posted = {} /\ fetched = {}
    /\ loop = LoopStart /\ threads = {} /\ is_updating = FALSE /\ win = "open"

\* All sequences over S of length at most n.
RECURSIVE SeqsUpTo(_, _)
SeqsUpTo(S, n) ==
    IF n = 0 THEN {<<>>}
    ELSE LET shorter == SeqsUpTo(S, n - 1)
         IN shorter \cup {Append(q, x) : q \in {r \in shorter : Len(r) = n - 1}, x \in S}

-----------------------------------------------------------------------------
(* StockData: the price-history cache.                                     *)

cache_timeout == 60

Callers == {"t1", "t2"}
CacheSymbols == {"A", "B"}
CachePeriods == {"1mo"}

\* cache_key = f"{symbol}_{period}"
cache_key(symbol, per) == <<symbol, per>>
CacheKeys == {cache_key(s, p) : s \in CacheSymbols, p \in CachePeriods}

\* data = 0: the key is not in the dict; otherwise data identifies the
\* DataFrame the data-th fetch returned.  A call in its fetch remembers in
\* "how" whether it found an expired entry or none.
NoEntry == [data |-> 0, ts |-> 0]
NoCall == [pc |-> "idle", key |-> <<"", "">>, t0 |-> 0, ret |-> 0, how |-> ""]

\* Mutant of IsFresh: an entry of age exactly cache_timeout still counts.
IsFresh_inclusive(current_time, timestamp) == current_time - timestamp <= cache_timeout

\* current_time - timestamp < self.cache_timeout
IsFresh(current_time, timestamp) == current_time - timestamp < cache_timeout

\* Symbols whose descriptive quote is looked up, and the record of a symbol
\* for which ticker.info has not been fetched yet.
QuoteSymbols == {"A"}
NoQuote == [n |-> 0, at |-> -1]

CacheIdle ==
    /\ now = 0
    /\ cache = [k \in CacheKeys |-> NoEntry]
    /\ fetches = 0
    /\ calls = [c \in Callers |-> NoCall]
    /\ info_cache = [q \in QuoteSymbols |-> NoEntry]
    /\ quoted = [q \in QuoteSymbols |-> NoQuote]

\* get_stock_data up to the fetch: take the time, look the key up, return the
\* cached data when it is fresh, otherwise go on to ticker.history.
get_stock_data(c, symbol, per) ==
    LET key == cache_key(symbol, per) IN
    /\ calls[c].pc # "fetching"
    /\ calls' = [calls EXCEPT ![c] =
          IF cache[key].data # 0 /\ IsFresh(now, cache[key].ts)
          THEN [pc |-> "returned", key |-> key, t0 |-> 0,
                ret |-> cache[key].data, how |-> "hit"]
          ELSE [pc |-> "fetching", key |-> key, t0 |-> now, ret |-> 0,
                how |-> IF cache[key].data # 0 THEN "expired" ELSE "absent"]]
    /\ UNCHANGED <<now, cache, fetches, info_cache, quoted, rsiVars, appVars>>

\* Mutant of get_stock_data_fetch: the result is stored under the key
\* whatever the fetch gave, so a failure is remembered.
get_stock_data_fetch_stored(c, outcome) ==
    /\ calls[c].pc = "fetching"
    /\ fetches < MaxFetch
    /\ fetches' = fetches + 1
    /\ cache' = [cache EXCEPT ![calls[c].key] =
                    [data |-> fetches + 1, ts |-> calls[c].t0]]
    /\ calls' = [calls EXCEPT ![c].pc = "returned", ![c].t0 = 0,
                              ![c].ret = IF outcome = "data" THEN fetches + 1 ELSE 0,
                              ![c].how = IF outcome = "data" THEN "fetched" ELSE "nodata"]
    /\ UNCHANGED <<now, info_cache, quoted, rsiVars, appVars>>

\* ticker.history returns: a non-empty frame is cached under the time taken
\* at the start of the call and returned; an empty frame or an exception
\* gives None and leaves the cache alone.
get_stock_data_fetch(c, outcome) ==
    /\ calls[c].pc = "fetching"
    /\ fetches < MaxFetch
    /\ fetches' = fetches + 1
    /\ IF outcome = "data"
       THEN /\ cache' = [cache EXCEPT ![calls[c].key] =
                            [data |-> fetches + 1, ts |-> calls[c].t0]]
            /\ calls' = [calls EXCEPT ![c].pc = "returned", ![c].t0 = 0,
                                      ![c].ret = fetches + 1,
                                      ![c].how = "fetched"]
       ELSE /\ cache' = cache
            /\ calls' = [calls EXCEPT ![c].pc = "returned", ![c].t0 = 0,
                                      ![c].ret = 0,
                                      ![c].how = "nodata"]
    /\ UNCHANGED <<now, info_cache, quoted, rsiVars, appVars>>

Tick ==
    /\ now + TimeStep <= MaxTime
    /\ now' = now + TimeStep
    /\ UNCHANGED <<cache, fetches, calls, info_cache, quoted, rsiVars, appVars>>

Call == \E c \in Callers, s \in CacheSymbols, p \in CachePeriods : get_stock_data(c, s, p)
Fetch == \E c \in Callers, o \in {"data", "empty", "raise"} : get_stock_data_fetch(c, o)

RsiIdle ==
    /\ prices = <<>> /\ period = 1 /\ out = NoOut /\ cls = NoCls
    /\ rsi_series = <<>> /\ window = 2 /\ divergence = NoDiv

InitCache == CacheIdle /\ RsiIdle /\ AppIdle

NextCache == Call \/ Fetch \/ Tick

SpecCache == InitCache /\ [][NextCache]_vars

-----------------------------------------------------------------------------
(* The tracker application: persistence.                                   *)

Apps == {"basic", "enhanced", "ultimate"}
Symbols == {"A", "B"}

Range(q) == {q[i] : i \in 1..Len(q)}
Last(q) == q[Len(q)]
Front(q) == SubSeq(q, 1, Len(q) - 1)

DupFree(q) == \A i, j \in 1..Len(q) : i # j => q[i] # q[j]

\* json.dump of a list of strings, as the sequence of its tokens.
RECURSIVE JsonItems(_)
JsonItems(q) ==
    IF Len(q) = 0 THEN <<>>
    ELSE IF Len(q) = 1 THEN <<q[1]>>
    ELSE <<q[1], ",">> \o JsonItems(Tail(q))

JsonList(q) == <<"[">> \o JsonItems(q) \o <<"]">>

JsonPunct == {"[", "]", "{", "}", ",", ":"}

\* A JSON number, as a token.
JsonNumbers == {"7"}

\* json.load of a token sequence: a list of scalars gives a list, a single
\* scalar token gives that scalar (list = FALSE); ok = FALSE stands for
\* json.JSONDecodeError.
ParseList(t) ==
    LET n == Len(t)
        inner == SubSeq(t, 2, n - 1)
        m == Len(inner)
        wellFormed ==
            /\ n >= 2 /\ t[1] = "[" /\ t[n] = "]"
            /\ (m = 0 \/ m % 2 = 1)
            /\ \A i \in 1..m : IF i % 2 = 1 THEN inner[i] \notin JsonPunct
                                            ELSE inner[i] = ","
    IN IF wellFormed
       THEN [ok |-> TRUE, list |-> TRUE,
             val |-> [i \in 1..((m + 1) \div 2) |-> inner[2 * i - 1]]]
       ELSE IF n = 1 /\ t[1] \notin JsonPunct
       THEN [ok |-> TRUE, list |-> FALSE, val |-> t[1]]
       ELSE [ok |-> FALSE, list |-> FALSE, val |-> <<>>]

\* enhanced_rsi_tracker.py writes {'watchlist': [...], 'last_updated': iso}.
JsonEnhanced(q) ==
    <<"{", "watchlist", ":">> \o JsonList(q) \o <<",", "last_updated", ":", "iso", "}">>

\* json.load of that object followed by data.get('watchlist', []): the
\* value under the key is taken as it is; an object without the key gives
\* []; any other JSON value has no get (AttributeError, ok = FALSE).
ParseEnhanced(t) ==
    LET n == Len(t)
        body == SubSeq(t, 4, n - 5)
    IN IF /\ n >= 9
          /\ SubSeq(t, 1, 3) = <<"{", "watchlist", ":">>
          /\ SubSeq(t, n - 4, n) = <<",", "last_updated", ":", "iso", "}">>
          /\ ParseList(body).ok
       THEN ParseList(body)
       ELSE IF t = <<"{", "}">> THEN [ok |-> TRUE, list |-> TRUE, val |-> <<>>]
       ELSE [ok |-> FALSE, list |-> FALSE, val |-> <<>>]

\* Mutant of save_watchlist: the list is written without its last symbol.
save_watchlist_short(a, wl) ==
    [exists |-> TRUE,
     text |-> IF a = "enhanced" THEN JsonEnhanced(SubSeq(wl, 1, Len(wl) - 1))
              ELSE JsonList(SubSeq(wl, 1, Len(wl) - 1))]

\* save_watchlist: the file the handler leaves behind.
save_watchlist(a, wl) ==
    [exists |-> TRUE,
     text |-> IF a = "enhanced" THEN JsonEnhanced(wl) ELSE JsonList(wl)]

\* json.load (and data.get) of the file's text, by tracker.
json_load(a, f) == IF a = "enhanced" THEN ParseEnhanced(f.text) ELSE ParseList(f.text)

\* load_watchlist: the watchlist after the call, given the one before it.
\* Whatever json.load returns is assigned; only an exception gives [].
load_watchlist(a, f, before) ==
    IF ~f.exists THEN before
    ELSE LET r == json_load(a, f)
         IN IF r.ok THEN r.val ELSE <<>>

\* Files the application may find at start: none, a damaged one, or one it
\* saved earlier.
StartFiles(a) ==
    {NoFile, [exists |-> TRUE, text |-> <<>>], [exists |-> TRUE, text |-> <<"[", "A">>]}
    \cup {save_watchlist(a, q) : q \in {w \in SeqsUpTo(Symbols, MaxWatch) : DupFree(w)}}

-----------------------------------------------------------------------------
(* The tracker application: one symbol update.                             *)

\* A posted update_table_row callback.  When the foreground runs it, it
\* rewrites the values of an existing row and ignores the TclError for a
\* missing one: no row is created or deleted, so the model keeps the posting
\* step only.  (The callbacks that set label texts are left out.)
RowCb(symbol, val) == [sym |-> symbol, val |-> val]

\* Mutant of update_stock_data: the try/except around the computation is
\* missing, so an exception leaves the function and nothing is posted.
update_stock_data_uncaught(symbol, outcome) ==
    [posts |-> IF outcome = "ok" THEN {RowCb(symbol, "Data")}
               ELSE IF outcome = "nodata" THEN {RowCb(symbol, "Error")}
               ELSE {},
     raised |-> outcome = "raise"]

\* Mutant of update_stock_data: the function writes the row itself instead
\* of posting update_table_row, so nothing is handed to the foreground.
update_stock_data_direct(symbol, outcome) ==
    [posts |-> {}, raised |-> FALSE]

\* update_stock_data(symbol).  outcome: "nodata" when get_stock_data returns
\* None, "raise" when the computation or formatting raises, "ok" otherwise.
\* Every path posts one update_table_row callback and returns normally.
update_stock_data(symbol, outcome) ==
    [posts |-> IF outcome = "ok" THEN {RowCb(symbol, "Data")}
               ELSE {RowCb(symbol, "Error")},
     raised |-> FALSE]

Outcomes == {"ok", "nodata", "raise"}

\* A get_stock_data call for symbol made on the thread by: "fg" is the
\* foreground (Tk) thread, "loop" the update_loop thread, "refresh", "add"
\* and "new" the threads the handlers start.  Every such call reaches the
\* data source on a cache miss.
FetchBy(by, symbol) == [by |-> by, sym |-> symbol]

-----------------------------------------------------------------------------
(* The tracker application: foreground handlers.                           *)

\* __init__ and run() up to mainloop: load_watchlist, start_updates,
\* populate_initial_data.
Init ==
    /\ RsiIdle /\ CacheIdle
    /\ app \in Apps
    /\ file \in StartFiles(app)
    /\ watchlist = load_watchlist(app, file, <<>>)
    /\ rows = Range(watchlist)
    /\ fg = <<>> /\ signal = "" /\ posted = {} /\ fetched = {}
    /\ loop = LoopStart /\ threads = {}
    /\ is_updating = TRUE
    /\ win = "open"

\* list.remove(x): the first occurrence goes.
RECURSIVE RemoveFirst(_, _)
RemoveFirst(q, x) ==
    IF Len(q) = 0 THEN q
    ELSE IF q[1] = x THEN Tail(q)
    ELSE <<q[1]>> \o RemoveFirst(Tail(q), x)

\* add_stock up to self.root.update(): empty entry, duplicate check, then
\* the event pump, inside which further events are handled.
add_stock(s) ==
    /\ win = "open"
    /\ fetched' = {}
    /\ posted' = {}
    /\ IF s = ""
       THEN /\ signal' = ""
            /\ UNCHANGED fg
       ELSE IF s \in Range(watchlist)
       THEN /\ signal' = "Duplicate"
            /\ UNCHANGED fg
       ELSE /\ Len(fg) < MaxDepth
            /\ signal' = ""
            /\ fg' = Append(fg, s)
    /\ UNCHANGED <<app, storeVars, threadVars, is_updating, win,
                   rsiVars, cacheVars>>

\* add_stock after self.root.update() returns: validation fetch, append,
\* save_watchlist, tree.insert, first update of the new row.
\* fetch: get_stock_data(symbol, "5d") returned data or None;
\* accept: the answer to "Limited data available ... Add anyway?" (enhanced).
add_stock_resume(fetch, accept, outcome) ==
    /\ win = "open"
    /\ fg # <<>>
    /\ LET s == Last(fg)
           upd == update_stock_data(s, outcome)
       IN /\ fg' = Front(fg)
          /\ fetched' = {FetchBy("fg", s)}
          /\ IF fetch = "none"
             THEN /\ signal' = "Invalid"
                  /\ UNCHANGED <<storeVars, threads>> /\ posted' = {}
             ELSE IF app = "enhanced" /\ ~accept
             THEN /\ signal' = ""
                  /\ UNCHANGED <<storeVars, threads>> /\ posted' = {}
             ELSE /\ Len(watchlist) < MaxWatch
                  /\ watchlist' = Append(watchlist, s)
                  /\ file' = save_watchlist(app, watchlist')
                  /\ IF s \in rows
                     THEN \* tree.insert raises TclError: the handler ends here
                          /\ signal' = "TclError"
                          /\ UNCHANGED <<rows, threads>> /\ posted' = {}
                     ELSE /\ rows' = rows \cup {s}
                          /\ signal' = "Added"
                          /\ IF app = "ultimate"
                             THEN /\ Cardinality(threads) < MaxThreads
                                  /\ threads' = threads \cup {UpdateThread("add", <<s>>)}
                                  /\ posted' = {}
                             ELSE /\ posted' = upd.posts
                                  /\ UNCHANGED threads
    /\ UNCHANGED <<app, loop, is_updating, win, rsiVars, cacheVars>>

\* The loop of add_symbols / import_portfolio over the symbols read:
\* append and insert a row for each symbol not yet in the watchlist.
RECURSIVE add_new_symbols(_, _, _)
add_new_symbols(symbols, wl, rw) ==
    IF Len(symbols) = 0 THEN [wl |-> wl, rows |-> rw, added |-> 0, error |-> FALSE]
    ELSE LET s == symbols[1] IN
         IF s \in Range(wl) THEN add_new_symbols(Tail(symbols), wl, rw)
         ELSE IF s \in rw
              THEN [wl |-> Append(wl, s), rows |-> rw, added |-> 0, error |-> TRUE]
              ELSE LET r == add_new_symbols(Tail(symbols), Append(wl, s), rw \cup {s})
                   IN [r EXCEPT !.added = r.added + 1]

\* The body add_symbols and import_portfolio share (ultimate only): the
\* symbols typed (duplicates possible) or read from the file (a set).
\* The bulk dialog holds the input grab, so its button is not pressed while
\* an add_stock call sits in the event pump; the Import button can be.
AddListed(symbols, kind) ==
    /\ win = "open"
    /\ fetched' = {}
    /\ posted' = {}
    /\ app = "ultimate"
    /\ kind = "import" => DupFree(symbols)
    /\ kind = "bulk" => fg = <<>>
    /\ IF symbols = <<>>
       THEN /\ signal' = "Invalid"
            /\ UNCHANGED <<storeVars, threads>>
       ELSE LET r == add_new_symbols(symbols, watchlist, rows) IN
            /\ Len(r.wl) <= MaxWatch
            /\ watchlist' = r.wl
            /\ rows' = r.rows
            /\ IF r.error
               THEN /\ signal' = "TclError"
                    /\ UNCHANGED <<file, threads>>
               ELSE /\ signal' = "Added"
                    /\ IF r.added > 0
                       THEN /\ Cardinality(threads) < MaxThreads
                            /\ file' = save_watchlist(app, r.wl)
                            /\ threads' = threads \cup {UpdateThread("new", symbols)}
                       ELSE UNCHANGED <<file, threads>>
    /\ UNCHANGED <<app, fg, loop, is_updating, win, rsiVars, cacheVars>>

\* bulk_add_stocks.add_symbols: the Add Stocks button of the bulk dialog.
add_symbols(symbols) == AddListed(symbols, "bulk")

\* import_portfolio after the file dialog and its self.root.update().
import_portfolio(symbols) == AddListed(symbols, "import")

\* remove_stock: sel is the selected row ("" when none), confirm the answer
\* to "Remove ... from watchlist?".
remove_stock(sel, confirm) ==
    /\ win = "open"
    /\ fetched' = {}
    /\ posted' = {}
    /\ sel \in rows \cup {""}
    /\ IF sel = ""
       THEN /\ signal' = "NoSelection"
            /\ UNCHANGED storeVars
       ELSE IF ~confirm
       THEN /\ signal' = ""
            /\ UNCHANGED storeVars
       ELSE IF sel \notin Range(watchlist)
       THEN \* list.remove raises ValueError: the handler ends here
            /\ signal' = "ValueError"
            /\ UNCHANGED storeVars
       ELSE /\ watchlist' = RemoveFirst(watchlist, sel)
            /\ rows' = rows \ {sel}
            /\ file' = save_watchlist(app, watchlist')
            /\ signal' = "Removed"
    /\ UNCHANGED <<app, fg, threadVars, is_updating, win, rsiVars, cacheVars>>

\* manual_refresh: start refresh_all_stocks on its own thread.
manual_refresh ==
    /\ win = "open"
    /\ fetched' = {}
    /\ posted' = {}
    /\ IF watchlist = <<>>
       THEN /\ signal' = "Empty"
            /\ UNCHANGED threads
       ELSE /\ Cardinality(threads) < MaxThreads
            /\ signal' = ""
            /\ threads' = threads \cup {RefreshThread(1)}
    /\ UNCHANGED <<app, storeVars, fg, loop, is_updating, win,
                   rsiVars, cacheVars>>

\* on_closing: clear the flag, then join the loop thread (at most 1 s).
on_closing ==
    /\ win = "open"
    /\ fetched' = {}
    /\ posted' = {}
    /\ signal' = ""
    /\ fg = <<>>
    /\ is_updating' = FALSE
    /\ win' = "joining"
    /\ UNCHANGED <<app, storeVars, fg, threadVars, rsiVars, cacheVars>>

\* on_closing: the join returned (thread ended or timeout); root.destroy().
on_closing_destroy ==
    /\ win = "joining"
    /\ fetched' = {}
    /\ posted' = {}
    /\ signal' = ""
    /\ win' = "destroyed"
    /\ UNCHANGED <<app, storeVars, fg, threadVars, is_updating,
                   rsiVars, cacheVars>>

-----------------------------------------------------------------------------
(* The tracker application: background threads.                            *)

\* The daemon threads run until the process exits, which it does when
\* root.destroy() ends mainloop and run() returns.
Running == win # "destroyed"

\* while self.is_updating: / if self.watchlist: / root.after(status)
update_loop_while ==
    /\ Running
    /\ fetched' = {}
    /\ loop.pc = "while"
    /\ posted' = {}
    /\ signal' = ""
    /\ IF ~is_updating
       THEN loop' = [loop EXCEPT !.pc = "done"]
       ELSE IF watchlist # <<>>
       THEN loop' = [loop EXCEPT !.pc = "copy"]
       ELSE loop' = [loop EXCEPT !.pc = "sleep"]
    /\ UNCHANGED <<app, storeVars, fg, threads, is_updating, win,
                   rsiVars, cacheVars>>

\* self.watchlist.copy(): the snapshot the for loop iterates.
update_loop_copy ==
    /\ Running
    /\ fetched' = {}
    /\ loop.pc = "copy"
    /\ posted' = {}
    /\ signal' = ""
    /\ loop' = [pc |-> "for", snapshot |-> watchlist, idx |-> 1, failed |-> FALSE]
    /\ UNCHANGED <<app, storeVars, fg, threads, is_updating, win,
                   rsiVars, cacheVars>>

\* for symbol in snapshot: / if not self.is_updating: break
update_loop_for ==
    /\ Running
    /\ fetched' = {}
    /\ loop.pc = "for"
    /\ posted' = {}
    /\ signal' = ""
    /\ loop' = [loop EXCEPT !.pc =
                  IF loop.idx > Len(loop.snapshot) \/ ~is_updating
                  THEN "fin" ELSE "upd"]
    /\ UNCHANGED <<app, storeVars, fg, threads, is_updating, win,
                   rsiVars, cacheVars>>

\* self.update_stock_data(symbol); failed records that some symbol of this
\* cycle could not be updated.
update_loop_update(outcome) ==
    /\ Running
    /\ loop.pc = "upd"
    /\ signal' = ""
    /\ LET upd == update_stock_data(loop.snapshot[loop.idx], outcome)
       IN /\ posted' = upd.posts
          /\ fetched' = {FetchBy("loop", loop.snapshot[loop.idx])}
          /\ loop' = [loop EXCEPT !.pc = IF upd.raised THEN "dead" ELSE "nap",
                                  !.failed = loop.failed \/ outcome # "ok"]
    /\ UNCHANGED <<app, storeVars, fg, threads, is_updating, win,
                   rsiVars, cacheVars>>

\* Mutant of update_loop_nap: after the sleep the for loop is left, so the
\* symbols behind the first one are not reached in this cycle.
update_loop_nap_break ==
    /\ Running
    /\ fetched' = {}
    /\ loop.pc = "nap"
    /\ posted' = {}
    /\ signal' = ""
    /\ loop' = [loop EXCEPT !.pc = "fin"]
    /\ UNCHANGED <<app, storeVars, fg, threads, is_updating, win,
                   rsiVars, cacheVars>>

\* time.sleep(1), then the next symbol.
update_loop_nap ==
    /\ Running
    /\ fetched' = {}
    /\ loop.pc = "nap"
    /\ posted' = {}
    /\ signal' = ""
    /\ loop' = [loop EXCEPT !.pc = "for", !.idx = loop.idx + 1]
    /\ UNCHANGED <<app, storeVars, fg, threads, is_updating, win,
                   rsiVars, cacheVars>>

\* After the for loop: post the last-update text and "Ready".
update_loop_finish ==
    /\ Running
    /\ fetched' = {}
    /\ loop.pc = "fin"
    /\ posted' = {}
    /\ signal' = ""
    /\ loop' = [pc |-> "sleep", snapshot |-> <<>>, idx |-> 0, failed |-> FALSE]
    /\ UNCHANGED <<app, storeVars, fg, threads, is_updating, win,
                   rsiVars, cacheVars>>

\* time.sleep(self.update_interval)
update_loop_sleep ==
    /\ Running
    /\ fetched' = {}
    /\ loop.pc = "sleep"
    /\ posted' = {}
    /\ signal' = ""
    /\ loop' = [loop EXCEPT !.pc = "while"]
    /\ UNCHANGED <<app, storeVars, fg, threads, is_updating, win,
                   rsiVars, cacheVars>>

\* refresh_all_stocks: the list iterator over the live self.watchlist hands
\* out the next symbol, update_stock_data(symbol) runs, time.sleep(0.5);
\* the thread ends when the iterator is exhausted.
refresh_all_stocks(t, outcome) ==
    /\ Running
    /\ t \in threads
    /\ t.kind = "refresh"
    /\ signal' = ""
    /\ IF t.idx <= Len(watchlist)
       THEN /\ threads' = (threads \ {t}) \cup {RefreshThread(t.idx + 1)}
            /\ posted' = update_stock_data(watchlist[t.idx], outcome).posts
            /\ fetched' = {FetchBy("refresh", watchlist[t.idx])}
       ELSE /\ threads' = threads \ {t}
            /\ posted' = {}
            /\ fetched' = {}
    /\ UNCHANGED <<app, storeVars, fg, loop, is_updating, win, rsiVars, cacheVars>>

\* The threads the add handlers start (ultimate): update_stock_data(symbol)
\* after add_stock, refresh_new_stocks(symbols) after a bulk add or import.
\* refresh_new_stocks skips a symbol that is no longer in self.watchlist.
refresh_new_stocks(t, outcome) ==
    /\ Running
    /\ t \in threads
    /\ t.kind # "refresh"
    /\ signal' = ""
    /\ LET s == Head(t.todo)
           rest == IF Len(t.todo) = 1 THEN {} ELSE {[t EXCEPT !.todo = Tail(t.todo)]}
       IN /\ threads' = (threads \ {t}) \cup rest
          /\ IF t.kind = "new" /\ s \notin Range(watchlist)
             THEN posted' = {} /\ fetched' = {}
             ELSE /\ posted' = update_stock_data(s, outcome).posts
                  /\ fetched' = {FetchBy(t.kind, s)}
    /\ UNCHANGED <<app, storeVars, fg, loop, is_updating, win, rsiVars, cacheVars>>

Add == \E s \in Symbols \cup {""} : add_stock(s)
Resume == \E f \in {"data", "none"}, a \in BOOLEAN, o \in Outcomes : add_stock_resume(f, a, o)
Bulk == \E q \in SeqsUpTo(Symbols, MaxWatch) : add_symbols(q)
Import == \E q \in SeqsUpTo(Symbols, MaxWatch) : import_portfolio(q)
Remove == \E sel \in Symbols \cup {""}, c \in BOOLEAN : remove_stock(sel, c)
LoopUpd == \E o \in Outcomes : update_loop_update(o)
Refresh == \E t \in threads, o \in Outcomes : refresh_all_stocks(t, o)
Spawned == \E t \in threads, o \in Outcomes : refresh_new_stocks(t, o)

Next ==
    \/ Add \/ Resume \/ Bulk \/ Import \/ Remove \/ manual_refresh
    \/ on_closing \/ on_closing_destroy
    \/ update_loop_while \/ update_loop_copy \/ update_loop_for \/ LoopUpd \/ update_loop_nap \/ update_loop_finish \/ update_loop_sleep
    \/ Refresh \/ Spawned

Spec == Init /\ [][Next]_vars

-----------------------------------------------------------------------------
(* SpecRSI: the indicator engine applied to bounded inputs.                *)


InitRSI ==
    /\ prices \in SeqsUpTo(1..MaxPrice, MaxLen)
    /\ period \in 1..MaxPeriod
    /\ out = NoOut
    /\ cls = NoCls
    /\ rsi_series = <<>> /\ window = 2 /\ divergence = NoDiv
    /\ CacheIdle
    /\ AppIdle

\* RSICalculator.calculate_rsi of rsi_tracker_app.py (scalar result).
RsiLatest ==
    /\ out' = [impl |-> "latest", vals |-> <<calculate_rsi_latest(prices, period)>>]
    /\ UNCHANGED <<prices, period, cls, rsi_series, window, divergence, cacheVars, appVars>>

\* RSICalculator.calculate_rsi of ultimate_rsi_tracker.py (series result).
RsiSeries ==
    /\ out' = [impl |-> "series", vals |-> calculate_rsi_series(prices, period)]
    /\ UNCHANGED <<prices, period, cls, rsi_series, window, divergence, cacheVars, appVars>>

\* RSICalculator(period).calculate_rsi of indicators/rsi_calculator.py.
RsiEma ==
    /\ out' = [impl |-> "ema", vals |-> calculate_rsi_ema(prices, period)]
    /\ UNCHANGED <<prices, period, cls, rsi_series, window, divergence, cacheVars, appVars>>

\* detect_signals and the row status of update_stock_data on one RSI value:
\* a computed one or one of RValues.
Classify ==
    /\ \E r \in RValues \cup {out.vals[i] : i \in 1..Len(out.vals)} :
          cls' = [set |-> TRUE, r |-> r,
                  signal |-> detect_signals(<<r>>)[1],
                  status |-> rsi_status(r)]
    /\ UNCHANGED <<prices, period, out, rsi_series, window, divergence, cacheVars, appVars>>

NextRSI == RsiLatest \/ RsiSeries \/ RsiEma \/ Classify

SpecRSI == InitRSI /\ [][NextRSI]_vars

-----------------------------------------------------------------------------
(* Claims about the price-history cache (SpecCache).                       *)

\* Caller c enters get_stock_data in this step.
Begins(c) == calls[c].pc # "fetching" /\ calls'[c] # calls[c]
\* Caller c's fetch returns in this step.
Completes(c) == calls[c].pc = "fetching" /\ calls'[c].pc = "returned"

\* C1 (as amended): a call for a key whose entry satisfies
\* now - fetched_at < cache_timeout returns the cached data and fetches
\* nothing; a call made when now - fetched_at >= cache_timeout goes on to a
\* fetch; the fetch overwrites the entry of that key (and only that entry)
\* when it returns data, and leaves the cache as it was when it returns
\* nothing or raises.
C1_CacheRoundTrip ==
    [][\A c \in Callers :
          LET k == calls'[c].key
              e == cache[k]
          IN /\ (Begins(c) /\ e.data # 0 /\ now - e.ts < 60)
                    => /\ calls'[c].pc = "returned"
                       /\ calls'[c].ret = e.data
                       /\ fetches' = fetches
                       /\ cache' = cache
             /\ (Begins(c) /\ e.data # 0 /\ now - e.ts >= 60)
                    => calls'[c].pc = "fetching"
             /\ Completes(c)
                    => /\ fetches' = fetches + 1
                       /\ calls'[c].ret # 0
                            => /\ calls'[c].ret = fetches'
                               /\ cache' = [cache EXCEPT ![k] =
                                    [data |-> fetches', ts |-> calls[c].t0]]
                       /\ calls'[c].ret = 0 => cache' = cache]_vars

\* C1 witness: for one key, a call was answered from the cache with the data
\* of the first fetch, and a call made 60 s or more after that fetch has
\* fetched again and overwritten the entry.
C1_Witness ==
    /\ calls["t1"].how = "hit" /\ calls["t1"].ret = 1
    /\ calls["t2"].how = "fetched" /\ calls["t2"].ret = 2
    /\ calls["t1"].key = calls["t2"].key
    /\ cache[calls["t2"].key] = [data |-> 2, ts |-> 60]
    /\ fetches = 2

\* C1 as stated: the call made when now - fetched_at >= cache_timeout
\* fetches and overwrites the entry of its key.
C1_Original ==
    [][\A c \in Callers :
          (Completes(c) /\ calls[c].how = "expired")
              => /\ fetches' = fetches + 1
                 /\ cache'[calls[c].key] = [data |-> fetches', ts |-> calls[c].t0]]_vars

-----------------------------------------------------------------------------
(* Claims about the indicator engine (SpecRSI).                            *)

\* C2: for a price series shorter than period + 1 every value calculate_rsi
\* returns is the neutral 50.0, in every implementation.
C2_ShortSeriesNeutral ==
    (out.impl # "none" /\ Len(prices) < period + 1)
        => \A i \in 1..Len(out.vals) : FEq(out.vals[i], Num(50, 1))

\* C3: for a price series of at least period + 1 values every value
\* calculate_rsi returns lies in [0, 100], in every implementation that
\* returns the series.
C3_RsiInRange ==
    (out.impl \in {"series", "ema"} /\ Len(prices) >= period + 1)
        => \A i \in 1..Len(out.vals) :
              FLe(Num(0, 1), out.vals[i]) /\ FLe(out.vals[i], Num(100, 1))

\* C4: SELL iff r > 70, BUY iff r < 30, HOLD otherwise, never two at once,
\* and the table-row status of update_stock_data classifies as detect_signals.
C4_SignalExact ==
    cls.set =>
        /\ cls.signal \in {"SELL", "BUY", "HOLD"}
        /\ cls.signal = "SELL" <=> FGt(cls.r, Num(70, 1))
        /\ cls.signal = "BUY" <=> FLt(cls.r, Num(30, 1))
        /\ cls.status = "Overbought" <=> cls.signal = "SELL"
        /\ cls.status = "Oversold" <=> cls.signal = "BUY"
        /\ cls.status = "Neutral" <=> cls.signal = "HOLD"

\* C4 witness: the value 70 itself has been classified, as HOLD.
C4_Witness ==
    cls.set /\ FEq(cls.r, Num(70, 1)) /\ cls.signal = "HOLD" /\ cls.status = "Neutral"

-----------------------------------------------------------------------------
(* Claims about the application (Spec).                                    *)

\* The scheduled loop takes the update step for a symbol.
LoopUpdates == loop.pc = "upd" /\ loop'.pc # "upd"

\* C5: in a scheduled cycle the failure of one symbol does not stop the
\* cycle: the update of a symbol always returns to the loop (the thread never
\* dies in it), a failed update posts the Error row of that symbol, a
\* successful one the data row, and while the application is not stopped the
\* loop leaves the cycle only after the last symbol of the snapshot.
C5_FailureIsolated ==
    [][ /\ loop'.pc # "dead"
        /\ LoopUpdates =>
             LET s == loop.snapshot[loop.idx] IN
             /\ loop'.pc = "nap"
             /\ \/ posted' = {RowCb(s, "Error")} /\ loop'.failed
                \/ posted' = {RowCb(s, "Data")} /\ loop'.failed = loop.failed
        /\ (loop.pc = "for" /\ loop'.pc = "fin" /\ is_updating) =>
             loop.idx = Len(loop.snapshot) + 1
      ]_vars

\* C5 witness: the first symbol of the cycle failed and the second one has
\* just been updated with data.
C5_Witness ==
    /\ loop.pc = "nap" /\ loop.idx = 2 /\ loop.failed
    /\ posted = {RowCb(loop.snapshot[2], "Data")}

\* C6: the watchlist never holds a symbol twice.
C6_NoDuplicates == DupFree(watchlist)

\* C7: an add_stock call that finishes for a symbol already in the watchlist
\* changes nothing (it signals the duplicate, or the rejected validation); one
\* that reports success for a symbol not in it has appended the symbol at the
\* end and persisted the list; the duplicate warning changes nothing.
C7_AddContract ==
    [][ /\ Len(fg') < Len(fg) =>
             LET s == Last(fg) IN
             IF s \in Range(watchlist)
             THEN /\ watchlist' = watchlist /\ file' = file
                  /\ signal' \in {"Duplicate", "Invalid"}
             ELSE signal' = "Added" =>
                    /\ watchlist' = Append(watchlist, s)
                    /\ file' = save_watchlist(app, watchlist')
        /\ signal' = "Duplicate" => watchlist' = watchlist /\ file' = file
      ]_vars

\* q without every occurrence of s.
Without(q, s) == LET Keep(x) == x # s IN SelectSeq(q, Keep)

\* C8: a removal deletes exactly the selected symbol, keeps the order of the
\* others and persists the list; a remove_stock call that finds nothing to
\* remove changes nothing, and none fails on a symbol missing from the list.
C8_RemoveContract ==
    [][ /\ signal' = "Removed" =>
             \E s \in rows :
                /\ rows' = rows \ {s}
                /\ s \notin Range(watchlist')
                /\ watchlist' = Without(watchlist, s)
                /\ file' = save_watchlist(app, watchlist')
        /\ signal' = "NoSelection" => UNCHANGED storeVars
        /\ signal' # "ValueError"
      ]_vars

\* C9: saving a watchlist and loading it back yields exactly that list, the
\* empty list included, in each application's file format; and the file the
\* application leaves behind always loads to the watchlist in memory.
C9_SaveLoadRoundTrip ==
    /\ \A a \in Apps, q \in SeqsUpTo(Symbols, MaxWatch) :
          load_watchlist(a, save_watchlist(a, q), <<>>) = q
    /\ load_watchlist(app, file, <<>>) = watchlist

\* C9 witness: the last symbol was removed and the empty list was saved.
C9_Witness ==
    /\ signal = "Removed" /\ watchlist = <<>>
    /\ file.exists /\ load_watchlist(app, file, <<"A">>) = <<>>

\* The symbols the running cycle has updated so far, in order.
CycleUpdates ==
    SubSeq(loop.snapshot, 1, IF loop.pc = "nap" THEN loop.idx ELSE loop.idx - 1)

\* How often s occurs in q.
Count(q, s) == Cardinality({i \in 1..Len(q) : q[i] = s})

\* C10: when a cycle has run to its end, every symbol that was in the
\* watchlist when the cycle took its snapshot and is still in it has been
\* updated exactly once, and the updates followed the snapshot's order.
C10_SnapshotCycle ==
    (loop.pc = "fin" /\ loop.idx > Len(loop.snapshot)) =>
        /\ CycleUpdates = loop.snapshot
        /\ \A s \in Range(loop.snapshot) \cap Range(watchlist) :
              Count(CycleUpdates, s) = 1

-----------------------------------------------------------------------------
(* Claims C11..C15: the scheduled loop, manual refresh, stopping, threads. *)

\* The scheduled loop reaches the next symbol of its snapshot and begins
\* update_stock_data for it (which fetches and posts the row callback).
LoopBegins == loop.pc = "for" /\ loop'.pc = "upd"

\* C11: a symbol that was removed from the watchlist while a scheduled cycle
\* was in progress, before the loop reached it, is skipped for the rest of
\* the cycle: the loop begins no update for it, so it is neither fetched
\* nor has a row update posted.
C11_RemovedSkipped ==
    [][LoopBegins => loop.snapshot[loop.idx] \in Range(watchlist)]_vars

\* A manual refresh thread is running next to the scheduled loop.
Refreshing == \E t \in threads : t.kind = "refresh"

\* C12: a manual refresh running concurrently with a scheduled cycle never
\* touches the cycle's progress, and a cycle that ran to its end next to a
\* manual refresh has updated every symbol of its snapshot exactly once.
C12_RefreshKeepsCycle ==
    [][/\ (threads \ threads' # {}) => loop' = loop
       /\ (Refreshing' /\ loop'.pc = "fin" /\ loop'.idx > Len(loop'.snapshot)) =>
             \A s \in Range(loop'.snapshot) : Count(loop'.snapshot, s) = 1]_vars

\* C13: once on_closing has cleared the flag, the update in progress is
\* never cut off (the process does not end while update_stock_data runs),
\* no update is begun for a later symbol of the snapshot, and no further
\* cycle is started.
C13_StopLetsUpdateFinish ==
    [][/\ ~(win' = "destroyed" /\ loop'.pc = "upd")
       /\ ~is_updating => (~LoopBegins /\ ~(loop.pc = "while" /\ loop'.pc = "copy"))]_vars

\* C14: no call that can reach the data source is ever made on the
\* foreground thread.
C14_NoForegroundFetch == \A f \in fetched : f.by # "fg"

\* A step of a background thread: the scheduled loop moved, or a handler's
\* thread took its step.
BackgroundStep == loop' # loop \/ threads \ threads' # {}

-----------------------------------------------------------------------------
(* Claim C16: a failed fetch (SpecCache).                                  *)

\* C16: when the fetch raises or returns an empty frame, get_stock_data
\* returns None and the cache is left exactly as it was; the failure is not
\* remembered: a later lookup of the key of a failed call that finds no
\* entry or an expired one goes on to a fetch, and a call only ever returns
\* from memory the data of a fresh entry.
C16_FailureNotCached ==
    [][\A c \in Callers :
          LET k == calls'[c].key
              e == cache[k]
          IN /\ (Completes(c) /\ calls'[c].how = "nodata")
                    => /\ calls'[c].ret = 0
                       /\ cache' = cache
             /\ (Begins(c) /\ \E d \in Callers :
                                 calls[d].how = "nodata" /\ calls[d].key = k)
                    => IF e.data = 0 \/ now - e.ts >= cache_timeout
                       THEN calls'[c].pc = "fetching"
                       ELSE calls'[c].ret = e.data]_vars

\* C16 witness: a call whose fetch failed has returned None while the
\* expired entry of its key is still in the cache, and the other caller's
\* next lookup of that key has gone on to a fetch.
C16_Witness ==
    \E c, d \in Callers :
        /\ calls[c].how = "nodata" /\ calls[c].ret = 0
        /\ cache[calls[c].key].data # 0
        /\ now - cache[calls[c].key].ts >= cache_timeout
        /\ calls[d].pc = "fetching" /\ calls[d].key = calls[c].key
        /\ calls[d].t0 = now /\ fetches = 2

-----------------------------------------------------------------------------
(* Start-up on an arbitrary watchlist file (SpecLoad).                     *)

MaxTokens == 3

\* The tokens the texts of the watchlist file are made of.
JsonTokens == {"[", "]", ",", "A", "7"}

\* The enhanced tracker's object around the text of a value.
JsonWrapped(t) ==
    <<"{", "watchlist", ":">> \o t \o <<",", "last_updated", ":", "iso", "}">>

\* The files start-up may find: none, any short text, any saved list, and
\* for the enhanced tracker each of those texts as the value of 'watchlist'.
LoadFiles(a) ==
    LET texts == SeqsUpTo(JsonTokens, MaxTokens)
                     \cup {JsonList(q) : q \in SeqsUpTo(Symbols, MaxWatch)}
        all == IF a = "enhanced"
               THEN texts \cup {JsonWrapped(t) : t \in texts} \cup {<<"{", "}">>}
               ELSE texts
    IN {NoFile} \cup {[exists |-> TRUE, text |-> t] : t \in all}

\* What load_watchlist left in self.watchlist is a list.
loaded_list(a, f) == ~f.exists \/ ~json_load(a, f).ok \/ json_load(a, f).list

\* The process before __init__ reaches load_watchlist: self.watchlist = [].
InitLoad ==
    /\ RsiIdle /\ CacheIdle
    /\ app \in Apps
    /\ file \in LoadFiles(app)
    /\ watchlist = <<>>
    /\ rows = {}
    /\ fg = <<>> /\ signal = "" /\ posted = {} /\ fetched = {}
    /\ loop = LoopStart /\ threads = {}
    /\ is_updating = FALSE
    /\ win = "init"

\* __init__: load_watchlist, then start_updates sets the flag.
__init__ ==
    /\ win = "init"
    /\ watchlist' = load_watchlist(app, file, watchlist)
    /\ is_updating' = TRUE
    /\ win' = "loaded"
    /\ UNCHANGED <<app, file, rows, fg, signal, posted, fetched, threadVars,
                   rsiVars, cacheVars>>

\* run: populate_initial_data inserts a row per element of self.watchlist.
\* Iterating a number raises TypeError, a second row with the same iid
\* raises TclError, and main then reports "Failed to start application";
\* a string is iterated by character.
run ==
    /\ win = "loaded"
    /\ IF ~loaded_list(app, file)
       THEN IF watchlist \in JsonNumbers
            THEN /\ rows' = rows
                 /\ signal' = "TypeError"
                 /\ win' = "failed"
            ELSE /\ rows' = {watchlist}
                 /\ signal' = ""
                 /\ win' = "open"
       ELSE /\ rows' = Range(watchlist)
            /\ signal' = IF DupFree(watchlist) THEN "" ELSE "TclError"
            /\ win' = IF DupFree(watchlist) THEN "open" ELSE "failed"
    /\ UNCHANGED <<app, watchlist, file, fg, posted, fetched, threadVars,
                   is_updating, rsiVars, cacheVars>>

NextLoad == __init__ \/ run

SpecLoad == InitLoad /\ [][NextLoad]_vars

\* The file holds a persisted watchlist: a JSON list of symbols, in the
\* form the tracker writes.
ValidPersisted(a, f) ==
    /\ f.exists
    /\ json_load(a, f).ok
    /\ json_load(a, f).list
    /\ Range(json_load(a, f).val) \subseteq Symbols

\* C17: load_watchlist never fails start-up: when the file is missing or
\* does not hold a valid persisted watchlist, the in-memory watchlist after
\* the load is the empty list and the application goes on to run.
C17_LoadNeverFails ==
    (win # "init" /\ ~ValidPersisted(app, file)) =>
        /\ win # "failed"
        /\ loaded_list(app, file)
        /\ watchlist = <<>>

-----------------------------------------------------------------------------
(* Claim C18: saturation at the extremes (SpecRSI).                        *)

StrictlyIncreasing(p) == \A i \in 1..(Len(p) - 1) : p[i] < p[i + 1]
StrictlyDecreasing(p) == \A i \in 1..(Len(p) - 1) : p[i] > p[i + 1]

\* C18: for a strictly increasing price series of at least period + 1
\* values (average loss zero) the final RSI is exactly 100, the division by
\* the zero average loss raising nothing; for a strictly decreasing one
\* (average gain zero) the final RSI is 0.  In every implementation.
C18_Saturates ==
    (out.impl # "none" /\ Len(prices) >= period + 1) =>
        /\ StrictlyIncreasing(prices) => FEq(Last(out.vals), Num(100, 1))
        /\ StrictlyDecreasing(prices) => FEq(Last(out.vals), Num(0, 1))

\* C18 witness: the latest-value implementation has returned 100 for the
\* rising series 1, 2, 3 with period 2.
C18_Witness ==
    /\ prices = <<1, 2, 3>> /\ period = 2
    /\ out.impl = "latest"
    /\ out.vals = <<Num(100, 1)>>

-----------------------------------------------------------------------------
(* detect_divergence of indicators/rsi_calculator.py (SpecDiv).            *)

MaxBars == 3        \* longest series handed to detect_divergence
MaxWindow == 3      \* windows are drawn from 2..MaxWindow

\* np.polyfit(range(len(x)), x, 1)[0]: the least-squares slope of ys over
\* the abscissas 0 .. n-1, from the normal equations.
polyfit_slope(ys) ==
    LET n == Len(ys)
        xy == [j \in 1..n |-> FMul(Num(j - 1, 1), ys[j])]
        Sx == (n * (n - 1)) \div 2
        Sxx == ((n - 1) * n * (2 * n - 1)) \div 6
    IN FDiv(FSub(FMul(Num(n, 1), WindowSum(xy, 1, n)),
                 FMul(Num(Sx, 1), WindowSum(ys, 1, n))),
            Num(n * Sxx - Sx * Sx, 1))

\* s.rolling(w).apply(polyfit slope): NaN until w observations are there,
\* and NaN for a window that holds a NaN.
rolling_slope(s, w) ==
    [i \in 1..Len(s) |->
        IF i < w \/ \E j \in (i - w + 1)..i : IsNaN(s[j])
        THEN NaN
        ELSE polyfit_slope(SubSeq(s, i - w + 1, i))]

\* Mutant of detect_divergence: the RSI thresholds 40 and 60 themselves
\* count as below and above.
detect_divergence_inclusive(p, r, w) ==
    LET price_trend == rolling_slope([i \in 1..Len(p) |-> Num(p[i], 1)], w)
        rsi_trend == rolling_slope(r, w)
    IN [i \in 1..Len(p) |->
          IF /\ FGt(price_trend[i], Num(0, 1)) /\ FLt(rsi_trend[i], Num(0, 1))
             /\ FLe(Num(60, 1), r[i])
          THEN "BEARISH"
          ELSE IF /\ FLt(price_trend[i], Num(0, 1)) /\ FGt(rsi_trend[i], Num(0, 1))
                  /\ FLe(r[i], Num(40, 1))
          THEN "BULLISH" ELSE "NONE"]

\* RSICalculator.detect_divergence: 'NONE', then BULLISH where bullish_div,
\* then BEARISH where bearish_div (the later assignment wins).
detect_divergence(p, r, w) ==
    LET price_trend == rolling_slope([i \in 1..Len(p) |-> Num(p[i], 1)], w)
        rsi_trend == rolling_slope(r, w)
    IN [i \in 1..Len(p) |->
          LET bullish_div == /\ FLt(price_trend[i], Num(0, 1))
                             /\ FGt(rsi_trend[i], Num(0, 1))
                             /\ FLt(r[i], Num(40, 1))
              bearish_div == /\ FGt(price_trend[i], Num(0, 1))
                             /\ FLt(rsi_trend[i], Num(0, 1))
                             /\ FGt(r[i], Num(60, 1))
              d0 == "NONE"
              d1 == IF bullish_div THEN "BULLISH" ELSE d0
          IN IF bearish_div THEN "BEARISH" ELSE d1]

\* Closing prices handed to detect_divergence: enough for a rising, a
\* falling and a flat window.
DivPrices == {1, 2}

\* RSI values handed to detect_divergence: around both thresholds, and the
\* NaN calculate_rsi leaves at the first bar.
DivRsi == {NaN, Num(30, 1), Num(35, 1), Num(40, 1), Num(60, 1), Num(65, 1), Num(70, 1)}

InitDiv ==
    /\ \E n \in 0..MaxBars :
          /\ prices \in [1..n -> DivPrices]
          /\ rsi_series \in [1..n -> DivRsi]
    /\ window \in 2..MaxWindow
    /\ period = 1 /\ out = NoOut /\ cls = NoCls
    /\ divergence = NoDiv
    /\ CacheIdle
    /\ AppIdle

DetectDivergence ==
    /\ divergence' = [set |-> TRUE,
                      vals |-> detect_divergence(prices, rsi_series, window)]
    /\ UNCHANGED <<prices, period, out, cls, rsi_series, window, cacheVars, appVars>>

NextDiv == DetectDivergence

SpecDiv == InitDiv /\ [][NextDiv]_vars

\* The trend of the w values of s ending at bar i, by the centred sum
\* of (2j - w - 1) * y_j over the window: its sign is the sign of the
\* fitted slope.  NaN when the window holds a NaN.
Trend(s, i, w) ==
    LET ys == SubSeq(s, i - w + 1, i)
        cs == [j \in 1..w |-> FMul(Num(2 * j - w - 1, 1), ys[j])]
    IN WindowSum(cs, 1, w)

\* C19: for every bar, detect_divergence yields BULLISH exactly when the bar
\* has a full trailing window, the price trend over it is negative, the RSI
\* trend over it is positive and the bar's RSI is below 40; BEARISH exactly
\* when the price trend is positive, the RSI trend negative and the RSI
\* above 60; NONE otherwise, so for every bar with less than a full window;
\* never both.
C19_DivergenceExact ==
    divergence.set =>
        /\ Len(divergence.vals) = Len(prices)
        /\ \A i \in 1..Len(prices) :
              LET pr == [j \in 1..Len(prices) |-> Num(prices[j], 1)]
                  full == i >= window
                  bull == /\ full
                          /\ FLt(Trend(pr, i, window), Num(0, 1))
                          /\ FGt(Trend(rsi_series, i, window), Num(0, 1))
                          /\ FLt(rsi_series[i], Num(40, 1))
                  bear == /\ full
                          /\ FGt(Trend(pr, i, window), Num(0, 1))
                          /\ FLt(Trend(rsi_series, i, window), Num(0, 1))
                          /\ FGt(rsi_series[i], Num(60, 1))
              IN /\ divergence.vals[i] = "BULLISH" <=> bull
                 /\ divergence.vals[i] = "BEARISH" <=> bear
                 /\ divergence.vals[i] = "NONE" <=> (~bull /\ ~bear)
                 /\ ~(bull /\ bear)

\* C19 witness: with window 2, price falling from 2 to 1 and RSI rising
\* from 30 to 35, the first bar has no full window (NONE) and the second is
\* a bullish divergence.
C19_Witness ==
    /\ divergence.set
    /\ window = 2
    /\ prices = <<2, 1>>
    /\ rsi_series = <<Num(30, 1), Num(35, 1)>>
    /\ divergence.vals = <<"NONE", "BULLISH">>


-----------------------------------------------------------------------------
(* Claim C20: one smoothing policy (SpecRSI).                              *)

\* C20: whichever implementation computed the full RSI series, for a series
\* of at least period + 1 prices its last element (when it is a number) is
\* the value the latest-value implementation reports for the same input.
C20_LatestIsLastOfSeries ==
    (/\ out.impl \in {"series", "ema"}
     /\ Len(prices) >= period + 1
     /\ ~IsNaN(Last(out.vals)))
        => FEq(Last(out.vals), calculate_rsi_latest(prices, period))

-----------------------------------------------------------------------------
(* Claim C21: the worked example (SpecWorked).                             *)

\* period: int = 14
default_period == 14

\* The example series 44, 44.34, 44.09, ... 46.28 in hundredths: RSI is a
\* ratio of sums of price differences, so the unit cancels.
ExamplePrices ==
    <<4400, 4434, 4409, 4415, 4361, 4433, 4483, 4510, 4542, 4584, 4608,
      4589, 4603, 4561, 4628>>

\* Every contiguous stretch of the example series, each with every period
\* up to the default one.
InitWorked ==
    /\ \E i \in 1..Len(ExamplePrices), j \in 1..Len(ExamplePrices) :
          i <= j /\ prices = SubSeq(ExamplePrices, i, j)
    /\ period \in 1..default_period
    /\ out = NoOut
    /\ cls = NoCls
    /\ rsi_series = <<>> /\ window = 2 /\ divergence = NoDiv
    /\ CacheIdle
    /\ AppIdle

\* The two implementations with SMA smoothing.
NextWorked == RsiLatest \/ RsiSeries

SpecWorked == InitWorked /\ [][NextWorked]_vars

\* C21: for the example series and period 14 the final RSI computed with
\* the SMA smoothing lies between 65 and 75, in the latest-value and in the
\* series implementation.
C21_WorkedExample ==
    (prices = ExamplePrices /\ period = default_period /\ out.impl # "none") =>
        /\ FLe(Num(65, 1), Last(out.vals))
        /\ FLe(Last(out.vals), Num(75, 1))

\* C21 witness: the latest-value implementation has returned 9200/127
\* (72.44) for the example.
C21_Witness ==
    /\ prices = ExamplePrices /\ period = default_period
    /\ out.impl = "latest"
    /\ out.vals = <<Num(9200, 127)>>

-----------------------------------------------------------------------------
(* Claims C22 and C28: concurrent lookups of one key (SpecCache).          *)

\* C22: lookups of one cache key that overlap do not duplicate work: at no
\* time are two callers both inside the underlying fetch for the same key.
C22_NoDuplicateFetch ==
    \A c, d \in Callers :
        (c # d /\ calls[c].pc = "fetching" /\ calls[d].pc = "fetching")
            => calls[c].key # calls[d].key

\* C28: for each cache key the stored fetched-at timestamp never decreases:
\* no entry is overwritten by one carrying an older timestamp.
C28_TimestampMonotone ==
    [][\A k \in CacheKeys : cache'[k].ts >= cache[k].ts]_vars

-----------------------------------------------------------------------------
(* The quote lookup of the enhanced and the ultimate tracker, next to the   *)
(* price-history cache it reads through.  Each lookup is one step here: the *)
(* interleavings of get_stock_data are the subject of SpecCache.            *)

\* self.info_cache_timeout = 300  # 5 minutes for stock info
info_cache_timeout == 300

QuoteStep == 60
MaxQuoteTime == 360

QuoteApps == {"enhanced", "ultimate"}
QuotePeriods == {"1mo", "3mo"}
QuoteKeys == {cache_key(s, p) : s \in QuoteSymbols, p \in QuotePeriods}

\* The period of the history that get_comprehensive_stock_info reads for
\* its volume and 52-week figures.
info_period(a) == IF a = "enhanced" THEN "3mo" ELSE "1mo"

\* Mutant of stock_data_lookup: the fetched frame is stored under the key of
\* every symbol for that period.
stock_data_lookup_all(c, key, t, outcome) ==
    IF c[key].data # 0 /\ IsFresh(t, c[key].ts) THEN c
    ELSE IF outcome = "data"
    THEN [k \in DOMAIN c |-> IF k[2] = key[2] THEN [data |-> 1, ts |-> t] ELSE c[k]]
    ELSE c

\* get_stock_data as one step on the history cache c at time t: a fresh
\* entry is returned, otherwise the fetch stores a non-empty result under t.
stock_data_lookup(c, key, t, outcome) ==
    IF c[key].data # 0 /\ IsFresh(t, c[key].ts) THEN c
    ELSE IF outcome = "data" THEN [c EXCEPT ![key] = [data |-> 1, ts |-> t]]
    ELSE c

\* What get_stock_data returns in that step: the cached or the fetched data
\* (TRUE) or None (FALSE).
stock_data_found(c, key, t, outcome) ==
    (c[key].data # 0 /\ IsFresh(t, c[key].ts)) \/ outcome = "data"

\* if cache_key in self.info_cache: info, timestamp = ...;
\*     if current_time - timestamp < self.info_cache_timeout: return info
\* The ultimate tracker has no such dict and no such test.
info_cached(a, ic, symbol, t) ==
    /\ a = "enhanced"
    /\ ic[symbol].data # 0
    /\ t - ic[symbol].ts < info_cache_timeout

\* get_comprehensive_stock_info(symbol) of tracker a at time t on the
\* history cache c and the quote cache ic: the enhanced tracker answers from
\* info_cache while the entry is younger than info_cache_timeout; otherwise,
\* and in the ultimate tracker always, ticker.info is fetched.  When that
\* raises, the defaults are returned and nothing is stored; when it returns,
\* the history is read through get_stock_data and (enhanced) the result is
\* stored under the time taken at the start of the call.
comprehensive_stock_info(a, c, ic, symbol, t, quote, hist) ==
    IF info_cached(a, ic, symbol, t)
    THEN [cache |-> c, info_cache |-> ic, fetch |-> FALSE, ok |-> TRUE]
    ELSE IF quote # "ok"
    THEN [cache |-> c, info_cache |-> ic, fetch |-> TRUE, ok |-> FALSE]
    ELSE [cache |-> stock_data_lookup(c, cache_key(symbol, info_period(a)), t, hist),
          info_cache |-> IF a = "enhanced"
                         THEN [ic EXCEPT ![symbol] = [data |-> 1, ts |-> t]]
                         ELSE ic,
          fetch |-> TRUE, ok |-> TRUE]

\* One call of get_comprehensive_stock_info; quoted counts the ticker.info
\* fetches and keeps the time of the last one that returned.
get_comprehensive_stock_info(symbol, quote, hist) ==
    LET r == comprehensive_stock_info(app, cache, info_cache, symbol, now, quote, hist)
    IN /\ r.fetch => quoted[symbol].n < MaxFetch
       /\ quoted' = IF r.fetch
                    THEN [quoted EXCEPT ![symbol] =
                            [n |-> @.n + 1, at |-> IF r.ok THEN now ELSE @.at]]
                    ELSE quoted
       /\ cache' = r.cache
       /\ info_cache' = r.info_cache
       /\ UNCHANGED <<now, fetches, calls, rsiVars, appVars>>

\* A lookup of the price history on its own, as an update makes it.
HistoryLookup ==
    \E s \in QuoteSymbols, p \in QuotePeriods, o \in {"data", "empty", "raise"} :
        /\ cache' = stock_data_lookup(cache, cache_key(s, p), now, o)
        /\ UNCHANGED <<now, fetches, calls, info_cache, quoted, rsiVars, appVars>>

QuoteLookup ==
    \E s \in QuoteSymbols, q \in {"ok", "raise"}, o \in {"data", "empty", "raise"} :
        get_comprehensive_stock_info(s, q, o)

QuoteTick ==
    /\ now + QuoteStep <= MaxQuoteTime
    /\ now' = now + QuoteStep
    /\ UNCHANGED <<cache, fetches, calls, info_cache, quoted, rsiVars, appVars>>

InitQuote ==
    /\ app \in QuoteApps
    /\ now = 0 /\ fetches = 0
    /\ cache = [k \in QuoteKeys |-> NoEntry]
    /\ calls = [c \in Callers |-> NoCall]
    /\ info_cache = [q \in QuoteSymbols |-> NoEntry]
    /\ quoted = [q \in QuoteSymbols |-> NoQuote]
    /\ RsiIdle
    /\ watchlist = <<>> /\ file = NoFile /\ rows = {}
    /\ fg = <<>> /\ signal = "" /\ posted = {} /\ fetched = {}
    /\ loop = LoopStart /\ threads = {} /\ is_updating = FALSE /\ win = "open"

NextQuote == QuoteLookup \/ HistoryLookup \/ QuoteTick

SpecQuote == InitQuote /\ [][NextQuote]_vars

\* C23: after a quote fetch that returned, no lookup of that symbol within
\* info_cache_timeout seconds fetches the quote again; a step that fetches
\* no quote leaves the quote cache as it is, and no step removes an entry of
\* the history cache or makes it older.
C23_QuoteCachedFiveMinutes ==
    [][\A s \in QuoteSymbols :
          /\ (quoted[s].at >= 0 /\ now - quoted[s].at < info_cache_timeout)
                => quoted'[s].n = quoted[s].n
          /\ quoted' = quoted => info_cache' = info_cache
          /\ \A k \in QuoteKeys :
                cache[k].data # 0 => cache'[k].data # 0 /\ cache'[k].ts >= cache[k].ts
      ]_vars

-----------------------------------------------------------------------------
(* SpecLive: the application with a loop thread that keeps being scheduled. *)
(* The operating system runs a runnable thread eventually and every fetch   *)
(* and sleep returns, so each step of update_loop is weakly fair; nothing   *)
(* is assumed about what the user does or about the other threads.          *)

LoopFair ==
    /\ WF_vars(update_loop_while) /\ WF_vars(update_loop_copy)
    /\ WF_vars(update_loop_for) /\ WF_vars(LoopUpd)
    /\ WF_vars(update_loop_nap) /\ WF_vars(update_loop_finish)
    /\ WF_vars(update_loop_sleep)

SpecLive == Init /\ [][Next]_vars /\ LoopFair

\* The scheduler has been started and not stopped, and the window is open.
SchedulerRunning == is_updating /\ win = "open"

\* The step just taken was the loop thread's update of symbol s, and it
\* posted the row callback of s.
LoopPosted(s) ==
    /\ fetched = {FetchBy("loop", s)}
    /\ \E cb \in posted : cb.sym = s

\* C24: if from some point on the scheduler keeps running and symbol s stays
\* in the watchlist, the loop posts a row update for s infinitely often,
\* whatever additions, removals of other symbols and manual refreshes happen.
C24_PeriodicRefreshLive ==
    \A s \in Symbols :
        <>[](SchedulerRunning /\ s \in Range(watchlist)) => []<>LoopPosted(s)

\* The loop posts the row of A while a manual refresh pass is running.
C24_Witness ==
    /\ SchedulerRunning /\ Refreshing
    /\ "A" \in Range(watchlist)
    /\ LoopPosted("A")

-----------------------------------------------------------------------------
(* SpecUpdate: one symbol update together with the caches it goes through. *)

UpdateStep == 60
MaxUpdateTime == 120

UpdateKeys == {cache_key(s, p) : s \in Symbols, p \in QuotePeriods}

\* The update of symbol s by tracker a at time t on the history cache c and
\* the quote cache ic: get_stock_data(symbol, "1mo"), in the enhanced and the
\* ultimate tracker get_comprehensive_stock_info(symbol), then the row
\* callback.  h1, quote and h2 are what the data source gives to the fetches
\* that are made, comp is "raise" when the computation raises.
symbol_update(a, c, ic, t, s, h1, quote, h2, comp) ==
    LET key == cache_key(s, "1mo")
        c1 == stock_data_lookup(c, key, t, h1)
        found == stock_data_found(c, key, t, h1)
        r == IF a = "basic"
             THEN [cache |-> c1, info_cache |-> ic, fetch |-> FALSE, ok |-> TRUE]
             ELSE comprehensive_stock_info(a, c1, ic, s, t, quote, h2)
    IN [cache |-> r.cache, info_cache |-> r.info_cache,
        posts |-> update_stock_data(s, IF found THEN comp ELSE "nodata").posts]

\* An exception inside get_stock_data is caught there and gives None like an
\* empty frame, so the two are one outcome here.
HistOutcomes == {"data", "empty"}
QuoteOutcomes == {"ok", "raise"}
CompOutcomes == {"ok", "raise"}

UpdateSymbol ==
    \E s \in Symbols, h1, h2 \in HistOutcomes, q \in QuoteOutcomes, comp \in CompOutcomes :
        LET u == symbol_update(app, cache, info_cache, now, s, h1, q, h2, comp)
        IN /\ cache' = u.cache
           /\ info_cache' = u.info_cache
           /\ posted' = u.posts
           /\ fetched' = {FetchBy("loop", s)}
           /\ signal' = ""
           /\ UNCHANGED <<now, fetches, calls, quoted, app, storeVars, fg,
                          threadVars, is_updating, win, rsiVars>>

UpdateTick ==
    /\ now + UpdateStep <= MaxUpdateTime
    /\ now' = now + UpdateStep
    /\ fetched' = {} /\ posted' = {} /\ signal' = ""
    /\ UNCHANGED <<cache, fetches, calls, info_cache, quoted, app, storeVars,
                   fg, threadVars, is_updating, win, rsiVars>>

InitUpdate ==
    /\ app \in Apps
    /\ watchlist \in {w \in SeqsUpTo(Symbols, MaxWatch) : DupFree(w)}
    /\ rows = Range(watchlist)
    /\ file = save_watchlist(app, watchlist)
    /\ now = 0 /\ fetches = 0
    /\ cache = [k \in UpdateKeys |-> NoEntry]
    /\ calls = [c \in Callers |-> NoCall]
    /\ info_cache = [q \in Symbols |-> NoEntry]
    /\ quoted = [q \in Symbols |-> NoQuote]
    /\ RsiIdle
    /\ fg = <<>> /\ signal = "" /\ posted = {} /\ fetched = {}
    /\ loop = LoopStart /\ threads = {} /\ is_updating = TRUE /\ win = "open"

NextUpdate == UpdateSymbol \/ UpdateTick

SpecUpdate == InitUpdate /\ [][NextUpdate]_vars

\* The caches with every entry of a symbol other than s emptied.
OnlyHistoryOf(s, c) == [k \in DOMAIN c |-> IF k[1] = s THEN c[k] ELSE NoEntry]
OnlyQuoteOf(s, ic) == [q \in DOMAIN ic |-> IF q = s THEN ic[q] ELSE NoEntry]

\* The update of s gives the same entries of s and the same posts whatever
\* the entries of the other symbols are.
ReadsOnlyOwn(s) ==
    \A h1, h2 \in HistOutcomes, q \in QuoteOutcomes, comp \in CompOutcomes :
        LET u == symbol_update(app, cache, info_cache, now, s, h1, q, h2, comp)
            v == symbol_update(app, OnlyHistoryOf(s, cache), OnlyQuoteOf(s, info_cache),
                               now, s, h1, q, h2, comp)
        IN /\ u.posts = v.posts
           /\ \A k \in UpdateKeys : k[1] = s => u.cache[k] = v.cache[k]
           /\ u.info_cache[s] = v.info_cache[s]

\* C25: an update of symbol s depends on and changes only the cache entries
\* keyed by s and posts only the row callback of s; the entries of every
\* other symbol, the rows, the watchlist and the file stay as they are.
C25_UpdateIndependent ==
    [][\A s \in Symbols : fetched' = {FetchBy("loop", s)} =>
          /\ ReadsOnlyOwn(s)
          /\ \A k \in UpdateKeys : k[1] # s => cache'[k] = cache[k]
          /\ \A q \in Symbols : q # s => info_cache'[q] = info_cache[q]
          /\ posted' # {} /\ \A cb \in posted' : cb.sym = s
          /\ UNCHANGED <<watchlist, file, rows>>
      ]_vars

\* A was updated at time 60 next to the entries of B stored at time 0.
C25_Witness ==
    /\ fetched = {FetchBy("loop", "A")}
    /\ posted = {RowCb("A", "Data")}
    /\ watchlist = <<"A", "B">>
    /\ cache[cache_key("A", "1mo")] = [data |-> 1, ts |-> 60]
    /\ cache[cache_key("B", "1mo")] = [data |-> 1, ts |-> 0]
    /\ app = "enhanced" => /\ info_cache["A"] = [data |-> 1, ts |-> 60]
                           /\ info_cache["B"] = [data |-> 1, ts |-> 0]

\* C26: once on_closing has signalled the stop, the loop thread eventually
\* ends (it leaves update_loop, or the process ends under it), and the
\* process is never ended, by the destroy that follows the join, while an
\* update of the loop is in progress.
C26_StopTerminates ==
    /\ (win = "joining") ~> (loop.pc = "done" \/ win = "destroyed")
    /\ [](win = "destroyed" => loop.pc # "upd")

\* The symbols a refresh pass whose iterator is at position t.idx of the
\* list w has yet to reach.
PassPending(t, w) == {w[i] : i \in t.idx..Len(w)}

\* C27: while a manual refresh pass is under way, a change of the watchlist
\* moves no symbol that stays in it across the position of the pass: a
\* symbol still to be updated stays so (it is not skipped), and a symbol
\* already updated is not put before the pass again (it is not repeated).
C27_PassCoversRemaining ==
    [][\A t \in threads \cap threads' : t.kind = "refresh" =>
          \A s \in Range(watchlist) \cap Range(watchlist') :
              /\ s \in PassPending(t, watchlist) => s \in PassPending(t, watchlist')
              /\ s \notin PassPending(t, watchlist) => s \notin PassPending(t, watchlist')
      ]_vars


\* C29: once on_closing has destroyed the window, the loop thread is not
\* inside a symbol update and no refresh pass has a symbol left to update.
C29_NoUpdateAfterClose ==
    win = "destroyed" =>
        /\ loop.pc # "upd"
        /\ \A t \in threads : t.kind = "refresh" => t.idx > Len(watchlist)
\* C30: whenever no foreground handler is under way, the rows of the table
\* are exactly the symbols of the watchlist.
C30_RowsAreWatchlist == (fg = <<>> /\ win = "open") => rows = Range(watchlist)
====
